---- MODULE Spec2Model ----
(***************************************************************************)
(* CHIP-8 disassembler (src/src/lib.rs): run reads a ROM, disassemble      *)
(* frames the bytes into big-endian 16-bit words, convert_instruction      *)
(* renders each word as a mnemonic, and the lines are folded into one      *)
(* text that run writes out.                                               *)
(*                                                                         *)
(* A Rust String is modelled as a sequence of one-character strings, so    *)
(* that single characters can be inspected.                                *)
(***************************************************************************)
EXTENDS Integers, Sequences, FiniteSets, TLC

\* ---------------------------------------------------------------- bounds
\* longest ROM (in bytes) read by run in the pipeline specification
MaxLen == 4
\* how many of the sample byte values a ROM of the pipeline specification may hold
NumByteVals == 6

\* sample byte values: 00 E0 EE (CLS, RET, SYS), 80 06 16 (SHR), F0 15
ByteSamples == <<\H00, \HE0, \HEE, \H80, \H06, \H16, \HF0, \H15>>

ByteVals ==
    {ByteSamples[i] : i \in 1..(IF NumByteVals < Len(ByteSamples) THEN NumByteVals ELSE Len(ByteSamples))}

Bytes == 0..255

\* the ROMs run may read: every ROM of at most MaxLen sample bytes, and every
\* ROM of exactly one word (two arbitrary bytes)
RomInputs ==
    (UNION {[1..n -> ByteVals] : n \in 0..MaxLen}) \cup [1..2 -> Bytes]

VARIABLES
    pc,            \* position in run / disassemble
    rom_bytes,     \* run: rom_bytes, disassemble: assembled_bytes
    idx,           \* offset of the next chunk of the chunks(2) iterator
    inst,          \* the u16 produced by the first map for the current chunk
    inst_text,     \* the String produced by convert_instruction for inst
    acc,           \* the accumulator of the fold
    words,         \* history: the words framed so far, in order
    decode_calls,  \* history: number of calls of convert_instruction
    dis_result,    \* the Result returned by disassemble
    output,        \* what run wrote to the output file / stdout
    run_result     \* the Result returned by run

vars == <<pc, rom_bytes, idx, inst, inst_text, acc, words, decode_calls,
          dis_result, output, run_result>>

\* ---------------------------------------------------------------- u16 arithmetic
RECURSIVE BitAnd(_, _)
BitAnd(a, b) ==
    IF a = 0 \/ b = 0 THEN 0
    ELSE (a % 2) * (b % 2) + 2 * BitAnd(a \div 2, b \div 2)

RECURSIVE BitOr(_, _)
BitOr(a, b) ==
    IF a = 0 THEN b
    ELSE IF b = 0 THEN a
    ELSE (IF (a % 2) + (b % 2) > 0 THEN 1 ELSE 0) + 2 * BitOr(a \div 2, b \div 2)

Shl16(a, n) == (a * (2 ^ n)) % 65536

Shr(a, n) == a \div (2 ^ n)

\* ---------------------------------------------------------------- formatting
UpperDigits == <<"0","1","2","3","4","5","6","7","8","9","A","B","C","D","E","F">>

\* format!("{:X}", n)
RECURSIVE UpperHex(_)
UpperHex(n) ==
    IF n < 16 THEN <<UpperDigits[n + 1]>>
    ELSE UpperHex(n \div 16) \o <<UpperDigits[(n % 16) + 1]>>

RECURSIVE PadLeft(_, _)
PadLeft(s, w) == IF Len(s) >= w THEN s ELSE PadLeft(<<"0">> \o s, w)

\* format!("{:0>wX}", n)
PaddedHex(n, w) == PadLeft(UpperHex(n), w)

\* ---------------------------------------------------------------- bit fields
upper_four(i)   == Shr(i, 12)
lower_twelve(i) == BitAnd(i, \H0FFF)
x_arg(i)        == Shr(BitAnd(i, \H0F00), 8)
lower_eight(i)  == BitAnd(i, \H00FF)
y_arg(i)        == Shr(BitAnd(i, \H00F0), 4)
lower_four(i)   == BitAnd(i, \H000F)

\* ---------------------------------------------------------------- the pattern checks
\* if inst == 0x00E0 / 0x00EE
IsWord(i, w) == i = w

\* if upper_four == n
IsTop(i, n) == upper_four(i) = n

\* a plausible slip: the check of the bottom nibble is forgotten
IsTopLow4_toponly(i, n, m) == upper_four(i) = n

\* if upper_four == n && lower_four == m
IsTopLow4(i, n, m) == upper_four(i) = n /\ lower_four(i) = m

\* if upper_four == n && lower_eight == b
IsTopLow8(i, n, b) == upper_four(i) = n /\ lower_eight(i) = b

\* the number of `if ... { return ... }` checks of convert_instruction
NumPatterns == 35

\* the condition of the k-th check of convert_instruction, in source order
PatternMatches(k, i) ==
    CASE k = 1  -> IsWord(i, \H00E0)
      [] k = 2  -> IsWord(i, \H00EE)
      [] k = 3  -> IsTop(i, \H0)
      [] k = 4  -> IsTop(i, \H1)
      [] k = 5  -> IsTop(i, \H2)
      [] k = 6  -> IsTop(i, \HA)
      [] k = 7  -> IsTop(i, \HB)
      [] k = 8  -> IsTop(i, \H3)
      [] k = 9  -> IsTop(i, \H4)
      [] k = 10 -> IsTop(i, \H6)
      [] k = 11 -> IsTop(i, \H7)
      [] k = 12 -> IsTop(i, \HC)
      [] k = 13 -> IsTopLow4(i, \H5, \H0)
      [] k = 14 -> IsTopLow4(i, \H8, \H0)
      [] k = 15 -> IsTopLow4(i, \H8, \H1)
      [] k = 16 -> IsTopLow4(i, \H8, \H2)
      [] k = 17 -> IsTopLow4(i, \H8, \H3)
      [] k = 18 -> IsTopLow4(i, \H8, \H4)
      [] k = 19 -> IsTopLow4(i, \H8, \H5)
      [] k = 20 -> IsTopLow4(i, \H8, \H7)
      [] k = 21 -> IsTopLow4(i, \H9, \H0)
      [] k = 22 -> IsTopLow4(i, \H8, \H6)
      [] k = 23 -> IsTopLow4(i, \H8, \HE)
      [] k = 24 -> IsTop(i, \HD)
      [] k = 25 -> IsTopLow8(i, \HE, \H9E)
      [] k = 26 -> IsTopLow8(i, \HE, \HA1)
      [] k = 27 -> IsTopLow8(i, \HF, \H07)
      [] k = 28 -> IsTopLow8(i, \HF, \H0A)
      [] k = 29 -> IsTopLow8(i, \HF, \H15)
      [] k = 30 -> IsTopLow8(i, \HF, \H18)
      [] k = 31 -> IsTopLow8(i, \HF, \H1E)
      [] k = 32 -> IsTopLow8(i, \HF, \H29)
      [] k = 33 -> IsTopLow8(i, \HF, \H33)
      [] k = 34 -> IsTopLow8(i, \HF, \H55)
      [] k = 35 -> IsTopLow8(i, \HF, \H65)

\* ---------------------------------------------------------------- the renderers
\* String::from(m) + &format!("{:0>3X}", addr)
AddrForm(m, i) == m \o PaddedHex(lower_twelve(i), 3)

\* String::from(m) + &format!("{:X}", x_arg) + ", 0x" + &format!("{:0>2X}", byte)
RegByteForm(m, i) ==
    m \o UpperHex(x_arg(i)) \o <<","," ","0","x">> \o PaddedHex(lower_eight(i), 2)

\* a plausible slip: the second register is not rendered
RegRegForm_noy(m, i) == m \o UpperHex(x_arg(i))

\* String::from(m) + &format!("{:X}", x_arg) + ", V" + &format!("{:X}", y_arg)
RegRegForm(m, i) ==
    m \o UpperHex(x_arg(i)) \o <<","," ","V">> \o UpperHex(y_arg(i))

\* String::from(m) + &format!("{:X}", x_arg)
RegForm(m, i) == m \o UpperHex(x_arg(i))

\* String::from(m) + &format!("{:X}", x_arg) + tail
RegTailForm(m, i, tail) == m \o UpperHex(x_arg(i)) \o tail

\* "DRW V" + x + ", V" + y + ", 0x" + &format!("{:X}", nibble)
DrwForm(i) ==
    <<"D","R","W"," ","V">> \o UpperHex(x_arg(i)) \o <<","," ","V">> \o UpperHex(y_arg(i))
        \o <<","," ","0","x">> \o UpperHex(lower_four(i))

\* the value returned by the k-th check of convert_instruction
Render(k, i) ==
    CASE k = 1  -> <<"C","L","S">>
      [] k = 2  -> <<"R","E","T">>
      [] k = 3  -> AddrForm(<<"S","Y","S"," ","0","x">>, i)
      [] k = 4  -> AddrForm(<<"J","P"," ","0","x">>, i)
      [] k = 5  -> AddrForm(<<"C","A","L","L"," ","0","x">>, i)
      [] k = 6  -> AddrForm(<<"L","D"," ","I",","," ","0","x">>, i)
      [] k = 7  -> AddrForm(<<"J","P"," ","V","0",","," ","0","x">>, i)
      [] k = 8  -> RegByteForm(<<"S","E"," ","V">>, i)
      [] k = 9  -> RegByteForm(<<"S","N","E"," ","V">>, i)
      [] k = 10 -> RegByteForm(<<"L","D"," ","V">>, i)
      [] k = 11 -> RegByteForm(<<"A","D","D"," ","V">>, i)
      [] k = 12 -> RegByteForm(<<"R","N","D"," ","V">>, i)
      [] k = 13 -> RegRegForm(<<"S","E"," ","V">>, i)
      [] k = 14 -> RegRegForm(<<"L","D"," ","V">>, i)
      [] k = 15 -> RegRegForm(<<"O","R"," ","V">>, i)
      [] k = 16 -> RegRegForm(<<"A","N","D"," ","V">>, i)
      [] k = 17 -> RegRegForm(<<"X","O","R"," ","V">>, i)
      [] k = 18 -> RegRegForm(<<"A","D","D"," ","V">>, i)
      [] k = 19 -> RegRegForm(<<"S","U","B"," ","V">>, i)
      [] k = 20 -> RegRegForm(<<"S","U","B","N"," ","V">>, i)
      [] k = 21 -> RegRegForm(<<"S","N","E"," ","V">>, i)
      [] k = 22 -> RegForm(<<"S","H","R"," ","V">>, i)
      [] k = 23 -> RegForm(<<"S","H","L"," ","V">>, i)
      [] k = 24 -> DrwForm(i)
      [] k = 25 -> RegForm(<<"S","K","P"," ","V">>, i)
      [] k = 26 -> RegForm(<<"S","K","N","P"," ","V">>, i)
      [] k = 27 -> RegTailForm(<<"L","D"," ","V">>, i, <<","," ","D","T">>)
      [] k = 28 -> RegTailForm(<<"L","D"," ","V">>, i, <<","," ","K">>)
      [] k = 29 -> RegForm(<<"L","D"," ","D","T",","," ","v">>, i)
      [] k = 30 -> RegForm(<<"L","D"," ","S","T",","," ","V">>, i)
      [] k = 31 -> RegForm(<<"A","D","D"," ","I",","," ","V">>, i)
      [] k = 32 -> RegForm(<<"L","D"," ","F",","," ","V">>, i)
      [] k = 33 -> RegForm(<<"L","D"," ","B",","," ","V">>, i)
      [] k = 34 -> RegForm(<<"L","D"," ","[","I","]",","," ","V">>, i)
      [] k = 35 -> RegTailForm(<<"L","D"," ","V">>, i, <<","," ","[","I","]">>)

\* a plausible slip: the fallback returns nothing for unknown words
Fallback_empty(i) == <<>>

\* a plausible slip: the fallback of the earlier revision
Fallback_err(i) == <<"E","R","R",":"," ">> \o PaddedHex(i, 4)

\* String::from("0x") + &format!("{:0>4X}", inst)
Fallback(i) == <<"0","x">> \o PaddedHex(i, 4)

\* the index of the first check that matches, 0 when none does
FirstMatch(i) ==
    IF \E k \in 1..NumPatterns : PatternMatches(k, i)
    THEN CHOOSE k \in 1..NumPatterns :
            /\ PatternMatches(k, i)
            /\ \A j \in 1..(k - 1) : ~PatternMatches(j, i)
    ELSE 0

\* fn convert_instruction(inst: u16) -> String
convert_instruction(i) ==
    LET k == FirstMatch(i)
    IN  IF k = 0 THEN Fallback(i) ELSE Render(k, i)

\* ---------------------------------------------------------------- disassemble
EmptyRomMsg == "Error parsing rom: empty rom"
UnevenMsg   == "Error parsing rom: uneven number of bytes"
NotFoundMsg == "File does not exist"
OtherIoMsg  == "An unanticipated error was encountered while reading or writing to file"

NoResult == [state |-> "none", text |-> <<>>, err |-> ""]
Ok(t)    == [state |-> "Ok",   text |-> t,    err |-> ""]
Err(m)   == [state |-> "Err",  text |-> <<>>, err |-> m]

\* a plausible slip: the test of the parity is dropped
LengthCheck_noparity(bytes) ==
    IF Len(bytes) = 0 THEN Err(EmptyRomMsg) ELSE NoResult

\* a plausible slip: the test of emptiness is dropped
LengthCheck_noempty(bytes) ==
    IF Len(bytes) % 2 # 0 THEN Err(UnevenMsg) ELSE NoResult

\* the two early returns of disassemble; NoResult when neither is taken
LengthCheck(bytes) ==
    IF Len(bytes) = 0 THEN Err(EmptyRomMsg)
    ELSE IF Len(bytes) % 2 # 0 THEN Err(UnevenMsg)
    ELSE NoResult

\* a plausible slip: the bytes of a pair are combined low byte first
MakeWord_little(b1, b2) == BitOr(Shl16(b2, 8), b1)

\* ((*b1 as u16) << 8) | (*b2 as u16)
MakeWord(b1, b2) == BitOr(Shl16(b1, 8), b2)

\* a plausible slip: the line break is pushed before the line
FoldStep_before(a, t) == a \o <<"\n">> \o t

\* the closure of the fold: acc.push_str(&inst); acc.push('\n')
FoldStep(a, t) == a \o t \o <<"\n">>

\* the chunk that chunks(2) yields at offset i
Chunk(bytes, i) ==
    SubSeq(bytes, i + 1, IF i + 2 <= Len(bytes) THEN i + 2 ELSE Len(bytes))

\* ---------------------------------------------------------------- the state machine
Init ==
    /\ pc = "start"
    /\ rom_bytes = <<>>
    /\ idx = 0
    /\ inst = 0
    /\ inst_text = <<>>
    /\ acc = <<>>
    /\ words = <<>>
    /\ decode_calls = 0
    /\ dis_result = NoResult
    /\ output = [written |-> FALSE, text |-> <<>>]
    /\ run_result = NoResult

\* run: fs::read(p)? / stdin().read_to_end(&mut buf)? succeeds
ReadInput ==
    /\ pc = "start"
    /\ \E bytes \in RomInputs : rom_bytes' = bytes
    /\ pc' = "disassemble"
    /\ UNCHANGED <<idx, inst, inst_text, acc, words, decode_calls, dis_result,
                   output, run_result>>

\* run: the read fails, `?` converts the io::Error and returns it
ReadFail ==
    /\ pc = "start"
    /\ \E m \in {NotFoundMsg, OtherIoMsg} : run_result' = Err(m)
    /\ pc' = "done"
    /\ UNCHANGED <<rom_bytes, idx, inst, inst_text, acc, words, decode_calls,
                   dis_result, output>>

\* disassemble: the length checks, then the iterator chain and String::new()
DisassembleEntry ==
    /\ pc = "disassemble"
    /\ LET c == LengthCheck(rom_bytes)
       IN  IF c.state = "Err"
           THEN /\ dis_result' = c
                /\ pc' = "returned"
                /\ UNCHANGED <<idx, acc>>
           ELSE /\ idx' = 0
                /\ acc' = <<>>
                /\ pc' = "iter"
                /\ UNCHANGED dis_result
    /\ UNCHANGED <<rom_bytes, inst, inst_text, words, decode_calls, output, run_result>>

\* the fold pulls the next chunk through the first map
NextChunk ==
    /\ pc = "iter"
    /\ idx < Len(rom_bytes)
    /\ LET chunk == Chunk(rom_bytes, idx)
       IN  IF Len(chunk) = 2
           THEN /\ inst' = MakeWord(chunk[1], chunk[2])
                /\ words' = Append(words, inst')
                /\ idx' = idx + 2
                /\ pc' = "convert"
           ELSE \* unreachable!(...)
                /\ pc' = "panic"
                /\ UNCHANGED <<inst, words, idx>>
    /\ UNCHANGED <<rom_bytes, inst_text, acc, decode_calls, dis_result, output, run_result>>

\* .map(convert_instruction)
Convert ==
    /\ pc = "convert"
    /\ inst_text' = convert_instruction(inst)
    /\ decode_calls' = decode_calls + 1
    /\ pc' = "fold"
    /\ UNCHANGED <<rom_bytes, idx, inst, acc, words, dis_result, output, run_result>>

\* .fold(String::new(), |mut acc, inst| ...)
Fold ==
    /\ pc = "fold"
    /\ acc' = FoldStep(acc, inst_text)
    /\ pc' = "iter"
    /\ UNCHANGED <<rom_bytes, idx, inst, inst_text, words, decode_calls, dis_result,
                   output, run_result>>

\* the iterator is exhausted: Ok(disassembled_string)
IterEnd ==
    /\ pc = "iter"
    /\ idx >= Len(rom_bytes)
    /\ dis_result' = Ok(acc)
    /\ pc' = "returned"
    /\ UNCHANGED <<rom_bytes, idx, inst, inst_text, acc, words, decode_calls,
                   output, run_result>>

\* run: let instructions = disassemble(rom_bytes)?
AfterDisassemble ==
    /\ pc = "returned"
    /\ IF dis_result.state = "Err"
       THEN /\ run_result' = Err(dis_result.err)
            /\ pc' = "done"
       ELSE /\ pc' = "write"
            /\ UNCHANGED run_result
    /\ UNCHANGED <<rom_bytes, idx, inst, inst_text, acc, words, decode_calls,
                   dis_result, output>>

\* run: fs::write(f, instructions)? / stdout().write_all(...)? succeeds; Ok(())
WriteOutput ==
    /\ pc = "write"
    /\ output' = [written |-> TRUE, text |-> dis_result.text]
    /\ run_result' = Ok(<<>>)
    /\ pc' = "done"
    /\ UNCHANGED <<rom_bytes, idx, inst, inst_text, acc, words, decode_calls, dis_result>>

\* run: the write fails, `?` converts the io::Error and returns it
WriteFail ==
    /\ pc = "write"
    /\ \E m \in {NotFoundMsg, OtherIoMsg} : run_result' = Err(m)
    /\ pc' = "done"
    /\ UNCHANGED <<rom_bytes, idx, inst, inst_text, acc, words, decode_calls,
                   dis_result, output>>

Next ==
    \/ ReadInput
    \/ ReadFail
    \/ DisassembleEntry
    \/ NextChunk
    \/ Convert
    \/ Fold
    \/ IterEnd
    \/ AfterDisassemble
    \/ WriteOutput
    \/ WriteFail

\* the whole pipeline on every ROM of RomInputs
Spec == Init /\ [][Next]_vars

\* ================================================================ properties
\* helpers of the properties: plain arithmetic on the word, and a reading of the text

\* the k-th nibble of w, k = 0 for bits 3-0
Nib(w, k) == (w \div (16 ^ k)) % 16

HiByte(w) == w \div 256
LoByte(w) == w % 256

\* the word that the pair of bytes at index i (from 1) of a ROM stands for
PairWord(bytes, i) == bytes[2 * i - 1] * 256 + bytes[2 * i]

IsUpperHexDigit(c) == \E d \in 1..16 : UpperDigits[d] = c

DigitVal(c) == CHOOSE d \in 0..15 : UpperDigits[d + 1] = c

\* the value of a string of uppercase hex digits, -1 when it is not one
RECURSIVE HexValue(_)
HexValue(s) ==
    IF Len(s) = 0 THEN -1
    ELSE IF ~IsUpperHexDigit(s[Len(s)]) THEN -1
    ELSE IF Len(s) = 1 THEN DigitVal(s[1])
    ELSE LET h == HexValue(SubSeq(s, 1, Len(s) - 1))
         IN  IF h < 0 THEN -1 ELSE h * 16 + DigitVal(s[Len(s)])

\* "0x" followed by exactly w uppercase hex digits
IsNum(o, w) ==
    /\ Len(o) = w + 2
    /\ o[1] = "0"
    /\ o[2] = "x"
    /\ HexValue(SubSeq(o, 3, Len(o))) >= 0

NumVal(o) == HexValue(SubSeq(o, 3, Len(o)))

\* 'V' followed by exactly one uppercase hex digit
IsReg(o) == Len(o) = 2 /\ o[1] = "V" /\ IsUpperHexDigit(o[2])

\* the same, in either case of the letter
IsRegAnyCase(o) == Len(o) = 2 /\ o[1] \in {"V", "v"} /\ IsUpperHexDigit(o[2])

RegVal(o) == DigitVal(o[2])

\* the position of the first occurrence of the string p in s, 0 when there is none
FirstAt(s, p) ==
    LET hits == {k \in 1..(Len(s) - Len(p) + 1) : SubSeq(s, k, k + Len(p) - 1) = p}
    IN  IF hits = {} THEN 0 ELSE CHOOSE k \in hits : \A j \in hits : k <= j

\* s cut at every occurrence of the separator p
RECURSIVE SplitOn(_, _)
SplitOn(s, p) ==
    LET k == FirstAt(s, p)
    IN  IF k = 0 THEN <<s>>
        ELSE <<SubSeq(s, 1, k - 1)>> \o SplitOn(SubSeq(s, k + Len(p), Len(s)), p)

\* the lines of a text in which every line is ended by a line break
Lines(t) ==
    LET parts == SplitOn(t, <<"\n">>)
    IN  SubSeq(parts, 1, Len(parts) - 1)

\* the mnemonic of a line: what stands before the first blank
Mnemonic(t) ==
    LET k == FirstAt(t, <<" ">>)
    IN  IF k = 0 THEN t ELSE SubSeq(t, 1, k - 1)

\* the operands of a line: what follows the first blank, cut at ", "
Operands(t) ==
    LET k == FirstAt(t, <<" ">>)
    IN  IF k = 0 THEN <<>> ELSE SplitOn(SubSeq(t, k + 1, Len(t)), <<",", " ">>)

\* 'V' and the uppercase hex digit of a register index
RegName(x) == <<"V", UpperDigits[x + 1]>>

\* w as exactly n uppercase hex digits, from its nibbles
RECURSIVE HexDigitsOf(_, _)
HexDigitsOf(w, n) ==
    IF n = 0 THEN <<>> ELSE HexDigitsOf(w \div 16, n - 1) \o <<UpperDigits[(w % 16) + 1]>>

\* the checks of convert_instruction that a word satisfies
Matches(w) == {k \in 1..NumPatterns : PatternMatches(k, w)}

\* the state in which convert_instruction has just returned inst_text for inst
Decoded == pc = "fold"

\* the state in which disassemble has just returned
Returned == pc = "returned"

\* ---------------------------------------------------------------- C1
\* C1: for every non-empty ROM of even length the framing yields exactly len/2
\* words, word i is (byte[2i] << 8) | byte[2i+1], and cutting word i into its
\* high and low byte gives back these two bytes, in order.  While the ROM is
\* being framed the words framed so far are those of the bytes consumed so far.
C1_FramingRoundTrip ==
    /\ Len(words) * 2 = idx
    /\ idx <= Len(rom_bytes) + 1
    /\ \A i \in 1..Len(words) :
          /\ words[i] = PairWord(rom_bytes, i)
          /\ words[i] \in 0..65535
          /\ HiByte(words[i]) = rom_bytes[2 * i - 1]
          /\ LoByte(words[i]) = rom_bytes[2 * i]
    /\ (Returned /\ Len(rom_bytes) > 0 /\ Len(rom_bytes) % 2 = 0)
          => Len(words) * 2 = Len(rom_bytes)

C1_Witness ==
    /\ Returned
    /\ Len(rom_bytes) = 4
    /\ Len(words) = 2
    /\ words[1] = \H8006
    /\ words[2] = \H00E0

\* ---------------------------------------------------------------- C2
\* C2: disassemble returns the error of the empty ROM exactly when the ROM has no
\* byte, the (different) error of the uneven ROM exactly when its length is odd,
\* and Ok exactly when the ROM is non-empty and of even length.
C2_ErrorKinds ==
    Returned =>
        /\ EmptyRomMsg # UnevenMsg
        /\ dis_result.state \in {"Ok", "Err"}
        /\ (dis_result = Err(EmptyRomMsg)) <=> (Len(rom_bytes) = 0)
        /\ (dis_result = Err(UnevenMsg)) <=> (Len(rom_bytes) % 2 = 1)
        /\ (dis_result.state = "Ok") <=> (Len(rom_bytes) > 0 /\ Len(rom_bytes) % 2 = 0)

C2_Witness ==
    /\ Returned
    /\ Len(rom_bytes) = 0
    /\ dis_result = Err(EmptyRomMsg)

\* ---------------------------------------------------------------- C3
\* C3: for every non-empty ROM of even length the text returned by disassemble
\* holds exactly len/2 lines, line i is the mnemonic of word i, every line, the
\* last one included, is ended by a line break, and [00 E0 00 EE] gives
\* "CLS\nRET\n".
C3_OutputText ==
    (Returned /\ Len(rom_bytes) > 0 /\ Len(rom_bytes) % 2 = 0) =>
        LET t == dis_result.text
            n == Len(rom_bytes) \div 2
        IN  /\ dis_result.state = "Ok"
            /\ Len(t) > 0
            /\ t[Len(t)] = "\n"
            /\ Cardinality({k \in 1..Len(t) : t[k] = "\n"}) = n
            /\ Len(Lines(t)) = n
            /\ \A i \in 1..n :
                  Lines(t)[i] = convert_instruction(PairWord(rom_bytes, i))
            /\ (rom_bytes = <<\H00, \HE0, \H00, \HEE>>)
                  => t = <<"C","L","S">> \o <<"\n">> \o <<"R","E","T">> \o <<"\n">>

C3_Witness ==
    /\ Returned
    /\ rom_bytes = <<\H00, \HE0, \H00, \HEE>>
    /\ dis_result = Ok(<<"C","L","S">> \o <<"\n">> \o <<"R","E","T">> \o <<"\n">>)

\* ---------------------------------------------------------------- C4
\* C4: convert_instruction returns a non-empty string for every 16-bit word.
C4_DecodeNonEmpty ==
    Decoded => Len(inst_text) > 0

C4_Witness ==
    /\ Decoded
    /\ inst = \HFFFF
    /\ Len(inst_text) > 0

\* ---------------------------------------------------------------- C5
\* the text that the table of the Fx forms gives for low byte b and register x
C5_Expected(b, x) ==
    CASE b = \H07 -> <<"L","D"," ">> \o RegName(x) \o <<","," ","D","T">>
      [] b = \H0A -> <<"L","D"," ">> \o RegName(x) \o <<","," ","K">>
      [] b = \H15 -> <<"L","D"," ","D","T",","," ">> \o RegName(x)
      [] b = \H18 -> <<"L","D"," ","S","T",","," ">> \o RegName(x)
      [] b = \H1E -> <<"A","D","D"," ","I",","," ">> \o RegName(x)
      [] b = \H29 -> <<"L","D"," ","F",","," ">> \o RegName(x)
      [] b = \H33 -> <<"L","D"," ","B",","," ">> \o RegName(x)
      [] b = \H55 -> <<"L","D"," ","[","I","]",","," ">> \o RegName(x)
      [] b = \H65 -> <<"L","D"," ">> \o RegName(x) \o <<","," ","[","I","]">>

C5_LowBytes == {\H07, \H0A, \H15, \H18, \H1E, \H29, \H33, \H55, \H65}

\* C5: every word with top nibble F and a low byte of the table is rendered as
\* the table says, the register as an uppercase 'V' and the uppercase hex digit
\* of bits 11-8.
C5_TimerForms ==
    (Decoded /\ Nib(inst, 3) = \HF /\ LoByte(inst) \in C5_LowBytes)
        => inst_text = C5_Expected(LoByte(inst), Nib(inst, 2))

\* ---------------------------------------------------------------- C6
\* C6 as stated: no word satisfies more than one check, so every check that a
\* word satisfies returns the text that convert_instruction returns for it.
C6_MutuallyExclusive ==
    Decoded =>
        /\ Cardinality(Matches(inst)) <= 1
        /\ \A k \in Matches(inst) : Render(k, inst) = inst_text

\* C6 amended: every word other than 00E0 and 00EE satisfies at most one check;
\* 00E0 and 00EE satisfy their own check and the one of SYS, which would return
\* another text, and are rendered as CLS and RET because their checks come first.
C6_ExclusiveButClsRet ==
    Decoded =>
        /\ (inst \notin {\H00E0, \H00EE}) => Cardinality(Matches(inst)) <= 1
        /\ (inst = \H00E0) =>
              /\ Matches(inst) = {1, 3}
              /\ inst_text = <<"C","L","S">>
              /\ Render(3, inst) = <<"S","Y","S"," ","0","x","0","E","0">>
        /\ (inst = \H00EE) =>
              /\ Matches(inst) = {2, 3}
              /\ inst_text = <<"R","E","T">>
              /\ Render(3, inst) = <<"S","Y","S"," ","0","x","0","E","E">>
        /\ \A k \in Matches(inst) :
              (\A j \in Matches(inst) : k <= j) => Render(k, inst) = inst_text

C6_Witness ==
    /\ Decoded
    /\ inst = \H00E0
    /\ inst_text = <<"C","L","S">>
    /\ Cardinality(Matches(inst)) = 2

\* ---------------------------------------------------------------- C7
\* the words that C7 lists as matching no pattern
C7_Unmatched(w) ==
    \/ Nib(w, 3) \in {\H5, \H9} /\ Nib(w, 0) # 0
    \/ Nib(w, 3) = \H8 /\ Nib(w, 0) \in {\H8, \H9, \HA, \HB, \HC, \HD, \HF}
    \/ Nib(w, 3) = \HE /\ LoByte(w) \notin {\H9E, \HA1}
    \/ Nib(w, 3) = \HF /\ LoByte(w) \notin C5_LowBytes

\* C7: a word is rendered by the fallback exactly when it is one of the listed
\* words, these are exactly the words that satisfy no check, and the fallback is
\* "0x" followed by the word as exactly 4 zero-padded uppercase hex digits.
C7_Fallback ==
    Decoded =>
        /\ C7_Unmatched(inst) <=> (Matches(inst) = {})
        /\ C7_Unmatched(inst) <=> (inst_text = <<"0","x">> \o HexDigitsOf(inst, 4))
        /\ C7_Unmatched(inst) <=> (Len(inst_text) = 6 /\ IsNum(inst_text, 4))

C7_Witness ==
    /\ Decoded
    /\ inst = \H5001
    /\ inst_text = <<"0","x","5","0","0","1">>

\* ---------------------------------------------------------------- C8
\* C8: in every decoded mnemonic the address is "0x" and exactly 3 uppercase hex
\* digits equal to bits 11-0, the immediate "0x" and exactly 2 digits equal to
\* bits 7-0, the size of DRW "0x" and exactly 1 digit equal to bits 3-0, and
\* every register operand 'V' and exactly 1 uppercase hex digit (bits 11-8 for
\* Vx, bits 7-4 for Vy).
C8_Operands ==
    (Decoded /\ ~C7_Unmatched(inst)) =>
        LET ops == Operands(inst_text)
            top == Nib(inst, 3)
            x   == Nib(inst, 2)
            y   == Nib(inst, 1)
        IN  /\ (top \in {\H0, \H1, \H2, \HA, \HB} /\ inst \notin {\H00E0, \H00EE}) =>
                  /\ Len(ops) = (IF top = \HA \/ top = \HB THEN 2 ELSE 1)
                  /\ IsNum(ops[Len(ops)], 3)
                  /\ NumVal(ops[Len(ops)]) = inst % 4096
            /\ (top \in {\H3, \H4, \H6, \H7, \HC}) =>
                  /\ Len(ops) = 2
                  /\ ops[1] = RegName(x)
                  /\ IsNum(ops[2], 2)
                  /\ NumVal(ops[2]) = LoByte(inst)
            /\ (top = \HD) =>
                  /\ Len(ops) = 3
                  /\ ops[1] = RegName(x)
                  /\ ops[2] = RegName(y)
                  /\ IsNum(ops[3], 1)
                  /\ NumVal(ops[3]) = Nib(inst, 0)
            /\ (top \in {\H5, \H8, \H9} /\ Nib(inst, 0) \notin {\H6, \HE}) =>
                  ops = <<RegName(x), RegName(y)>>
            /\ ((top = \H8 /\ Nib(inst, 0) \in {\H6, \HE}) \/ top = \HE) =>
                  ops = <<RegName(x)>>
            /\ (top = \HF) =>
                  \E k \in 1..Len(ops) : ops[k] = RegName(x)
            /\ \A k \in 1..Len(ops) : IsRegAnyCase(ops[k]) => IsReg(ops[k])
            /\ (inst = \H1234) => inst_text = <<"J","P"," ","0","x","2","3","4">>
            /\ (inst = \H6A07) => inst_text = <<"L","D"," ","V","A",","," ","0","x","0","7">>
            /\ (inst = \HDAB4) => inst_text = <<"D","R","W"," ","V","A",","," ","V","B",","," ","0","x","4">>

\* ---------------------------------------------------------------- C9
\* C9: in a run on a ROM of odd length no word is ever framed, the decoder is
\* never called, no text is accumulated or written, and the run ends with the
\* error of the uneven ROM.
C9_OddLengthBeforeDecoding ==
    (Len(rom_bytes) % 2 = 1) =>
        /\ words = <<>>
        /\ decode_calls = 0
        /\ acc = <<>>
        /\ inst_text = <<>>
        /\ ~output.written
        /\ pc \in {"disassemble", "returned", "done"}
        /\ (pc = "returned") => dis_result = Err(UnevenMsg)
        /\ (pc = "done") => run_result = Err(UnevenMsg)

C9_Witness ==
    /\ pc = "done"
    /\ Len(rom_bytes) = 3
    /\ run_result = Err(UnevenMsg)
    /\ decode_calls = 0

\* ---------------------------------------------------------------- C10
\* w with the bits that SHR and SHL ignore (bits 7-4) cleared
Canon(w) ==
    IF Nib(w, 3) = \H8 /\ Nib(w, 0) \in {\H6, \HE}
    THEN w - 16 * Nib(w, 1)
    ELSE w

\* the two distinct words differ only in the second register of a SHR or a SHL
ShiftTwins(w1, w2) ==
    /\ w1 # w2
    /\ Nib(w1, 3) = \H8
    /\ Nib(w2, 3) = \H8
    /\ Nib(w1, 2) = Nib(w2, 2)
    /\ Nib(w1, 0) = Nib(w2, 0)
    /\ Nib(w1, 0) \in {\H6, \HE}

\* the word that a line stands for, read back from its mnemonic and operands
\* alone (bits 7-4 as 0 where the line has no second register), -1 for a text
\* that is no line of the disassembler
Reassemble(t) ==
    LET m   == Mnemonic(t)
        ops == Operands(t)
        n   == Len(ops)
        R(k)   == IsRegAnyCase(ops[k])
        r(k)   == RegVal(ops[k])
        N(k, w) == IsNum(ops[k], w)
        v(k)   == NumVal(ops[k])
        XY(base) == base + 256 * r(1) + 16 * r(2)
        X(base)  == base + 256 * r(1)
    IN  CASE m = <<"C","L","S">> /\ n = 0 -> \H00E0
          [] m = <<"R","E","T">> /\ n = 0 -> \H00EE
          [] m = <<"S","Y","S">> /\ n = 1 /\ N(1, 3) -> v(1)
          [] m = <<"J","P">> /\ n = 1 /\ N(1, 3) -> \H1000 + v(1)
          [] m = <<"C","A","L","L">> /\ n = 1 /\ N(1, 3) -> \H2000 + v(1)
          [] m = <<"L","D">> /\ n = 2 /\ ops[1] = <<"I">> /\ N(2, 3) -> \HA000 + v(2)
          [] m = <<"J","P">> /\ n = 2 /\ ops[1] = <<"V","0">> /\ N(2, 3) -> \HB000 + v(2)
          [] m = <<"S","E">> /\ n = 2 /\ R(1) /\ N(2, 2) -> X(\H3000) + v(2)
          [] m = <<"S","N","E">> /\ n = 2 /\ R(1) /\ N(2, 2) -> X(\H4000) + v(2)
          [] m = <<"L","D">> /\ n = 2 /\ R(1) /\ N(2, 2) -> X(\H6000) + v(2)
          [] m = <<"A","D","D">> /\ n = 2 /\ R(1) /\ N(2, 2) -> X(\H7000) + v(2)
          [] m = <<"R","N","D">> /\ n = 2 /\ R(1) /\ N(2, 2) -> X(\HC000) + v(2)
          [] m = <<"S","E">> /\ n = 2 /\ R(1) /\ R(2) -> XY(\H5000)
          [] m = <<"L","D">> /\ n = 2 /\ R(1) /\ R(2) -> XY(\H8000)
          [] m = <<"O","R">> /\ n = 2 /\ R(1) /\ R(2) -> XY(\H8001)
          [] m = <<"A","N","D">> /\ n = 2 /\ R(1) /\ R(2) -> XY(\H8002)
          [] m = <<"X","O","R">> /\ n = 2 /\ R(1) /\ R(2) -> XY(\H8003)
          [] m = <<"A","D","D">> /\ n = 2 /\ R(1) /\ R(2) -> XY(\H8004)
          [] m = <<"S","U","B">> /\ n = 2 /\ R(1) /\ R(2) -> XY(\H8005)
          [] m = <<"S","U","B","N">> /\ n = 2 /\ R(1) /\ R(2) -> XY(\H8007)
          [] m = <<"S","N","E">> /\ n = 2 /\ R(1) /\ R(2) -> XY(\H9000)
          [] m = <<"S","H","R">> /\ n = 1 /\ R(1) -> X(\H8006)
          [] m = <<"S","H","L">> /\ n = 1 /\ R(1) -> X(\H800E)
          [] m = <<"D","R","W">> /\ n = 3 /\ R(1) /\ R(2) /\ N(3, 1) -> XY(\HD000) + v(3)
          [] m = <<"S","K","P">> /\ n = 1 /\ R(1) -> X(\HE09E)
          [] m = <<"S","K","N","P">> /\ n = 1 /\ R(1) -> X(\HE0A1)
          [] m = <<"L","D">> /\ n = 2 /\ R(1) /\ ops[2] = <<"D","T">> -> X(\HF007)
          [] m = <<"L","D">> /\ n = 2 /\ R(1) /\ ops[2] = <<"K">> -> X(\HF00A)
          [] m = <<"L","D">> /\ n = 2 /\ ops[1] = <<"D","T">> /\ R(2) -> \HF015 + 256 * r(2)
          [] m = <<"L","D">> /\ n = 2 /\ ops[1] = <<"S","T">> /\ R(2) -> \HF018 + 256 * r(2)
          [] m = <<"A","D","D">> /\ n = 2 /\ ops[1] = <<"I">> /\ R(2) -> \HF01E + 256 * r(2)
          [] m = <<"L","D">> /\ n = 2 /\ ops[1] = <<"F">> /\ R(2) -> \HF029 + 256 * r(2)
          [] m = <<"L","D">> /\ n = 2 /\ ops[1] = <<"B">> /\ R(2) -> \HF033 + 256 * r(2)
          [] m = <<"L","D">> /\ n = 2 /\ ops[1] = <<"[","I","]">> /\ R(2) -> \HF055 + 256 * r(2)
          [] m = <<"L","D">> /\ n = 2 /\ R(1) /\ ops[2] = <<"[","I","]">> -> X(\HF065)
          [] n = 0 /\ IsNum(m, 4) -> NumVal(m)
          [] OTHER -> -1

\* C10: two distinct words have the same mnemonic exactly when they differ only
\* in the ignored bits 7-4 of a SHR or a SHL.  The text of a word is the text of
\* the word with these bits cleared, and the text alone gives that word back, so
\* that words with the same text agree up to these bits; and of two distinct
\* words disassembled in one ROM, the lines are equal exactly for such twins.
C10_SameTextOnlyShiftTwins ==
    /\ Decoded =>
          /\ inst_text = convert_instruction(Canon(inst))
          /\ Reassemble(inst_text) = Canon(inst)
          /\ \A yy \in 0..15 :
                LET w2 == inst - 16 * Nib(inst, 1) + 16 * yy
                IN  (w2 # inst) =>
                       ((convert_instruction(w2) = inst_text) <=> ShiftTwins(inst, w2))
    /\ (Returned /\ dis_result.state = "Ok") =>
          \A i \in 1..Len(words) : \A j \in 1..Len(words) :
              (words[i] # words[j]) =>
                 ((Lines(dis_result.text)[i] = Lines(dis_result.text)[j])
                     <=> ShiftTwins(words[i], words[j]))

C10_Witness ==
    /\ Returned
    /\ words = <<\H8006, \H8016>>
    /\ Lines(dis_result.text) = <<<<"S","H","R"," ","V","0">>, <<"S","H","R"," ","V","0">>>>
====
